---- MODULE Spec2Model ----
(***************************************************************************)
(* BedrockNode: the per-command pipeline of a Bedrock node                 *)
(* (src/BedrockNode.cpp).  _peekCommand, _processCommand, _abortCommand    *)
(* and _cleanCommand are modelled statement block by statement block; the *)
(* plugins and the SQLite handle are the environment.                      *)
(*                                                                         *)
(* A C++ string is a tuple of one-character strings, so that SContains,    *)
(* SStartsWith and SIEquals are computed on the characters.                *)
(***************************************************************************)
EXTENDS Integers, Sequences, FiniteSets, TLC

(* ---------------------------------------------------------------- bounds *)
\* Number of plugins in BedrockPlugin::g_registeredPluginList.
NumPlugins == 2
\* How many commands can be queued behind the one being handled.
MaxWaiting == 1

Plugins == 1..NumPlugins

(* --------------------------------------------------------------- strings *)
Str200OK == <<"2", "0", "0", " ", "O", "K">>
Str500Aborted == <<"5", "0", "0", " ", "A", "B", "O", "R", "T", "E", "D">>
Str501Begin == <<"5", "0", "1", " ", "F", "a", "i", "l", "e", "d", " ", "t", "o", " ", "b", "e", "g", "i", "n", " ", "t", "r", "a", "n", "s", "a", "c", "t", "i", "o", "n">>
Str501Prepare == <<"5", "0", "1", " ", "F", "a", "i", "l", "e", "d", " ", "t", "o", " ", "p", "r", "e", "p", "a", "r", "e", " ", "t", "r", "a", "n", "s", "a", "c", "t", "i", "o", "n">>
Str430 == <<"4", "3", "0", " ", "U", "n", "r", "e", "c", "o", "g", "n", "i", "z", "e", "d", " ", "c", "o", "m", "m", "a", "n", "d">>
StrUpgradeDatabase == <<"U", "p", "g", "r", "a", "d", "e", "D", "a", "t", "a", "b", "a", "s", "e">>
StrAlertMarker == <<"_", "A", "L", "E", "R", "T", "_">>
StrWarnMarker == <<"_", "W", "A", "R", "N", "_">>
StrHmmmMarker == <<"_", "H", "M", "M", "M", "_">>
StrPrefix50 == <<"5", "0">>
MethodUpgradeLower == <<"u", "p", "g", "r", "a", "d", "e", "d", "a", "t", "a", "b", "a", "s", "e">>
MethodBogus == <<"B", "o", "g", "u", "s">>
Err502 == <<"5", "0", "2", " ", "F", "a", "i", "l", "e", "d", " ", "t", "o", " ", "e", "x", "e", "c", "u", "t", "e", " ", "q", "u", "e", "r", "y">>
Err530 == <<"5", "3", "0", " ", "U", "n", "e", "x", "p", "e", "c", "t", "e", "d", " ", "r", "e", "s", "p", "o", "n", "s", "e", ".">>
Err599 == <<"5", "9", "9", " ", "U", "n", "k", "n", "o", "w", "n">>
Err404 == <<"4", "0", "4", " ", "R", "e", "s", "o", "u", "r", "c", "e", " ", "d", "o", "e", "s", "n", "'", "t", " ", "e", "x", "i", "s", "t">>
Err404Warn == <<"4", "0", "4", "_", "W", "A", "R", "N", "_", " ", "N", "o", "t", " ", "F", "o", "u", "n", "d">>
Err502Warn == <<"5", "0", "2", "_", "W", "A", "R", "N", "_", " ", "F", "a", "i", "l", "e", "d", " ", "t", "o", " ", "e", "x", "e", "c", "u", "t", "e", " ", "q", "u", "e", "r", "y">>
Err402Alert == <<"4", "0", "2", "_", "A", "L", "E", "R", "T", "_", " ", "I", "n", "c", "o", "m", "p", "l", "e", "t", "e", " ", "r", "e", "q", "u", "e", "s", "t">>
Err500Hmmm == <<"5", "0", "0", "_", "H", "M", "M", "M", "_", " ", "U", "n", "k", "n", "o", "w", "n", " ", "s", "e", "r", "v", "e", "r", " ", "f", "a", "i", "l", "u", "r", "e">>
Err404WarnAlert == <<"4", "0", "4", "_", "W", "A", "R", "N", "_", " ", "_", "A", "L", "E", "R", "T", "_", " ", "N", "o", "t", " ", "F", "o", "u", "n", "d">>
Err500HmmmWarn == <<"5", "0", "0", "_", "H", "M", "M", "M", "_", " ", "_", "W", "A", "R", "N", "_", " ", "U", "n", "k", "n", "o", "w", "n">>
StrQueuedPrefix == <<"Q", "u", "e", "u", "e", "d", ":", " ">>
Status300 == <<"3", "0", "0", " ", "R", "e", "d", "u", "n", "d", "a", "n", "t", " ", "r", "e", "q", "u", "e", "s", "t">>
BodyRaw == <<"r", "a", "w">>
StrQuery == <<"Q", ";">>

\* Optional values: a C++ null / "not set" is None, a value v is Some(v).
None == <<>>
Some(v) == <<v>>

(* libstuff string helpers *)
SStartsWith(s, prefix) ==
    /\ Len(s) >= Len(prefix)
    /\ SubSeq(s, 1, Len(prefix)) = prefix

SContains(s, sub) ==
    \E i \in 1..(Len(s) - Len(sub) + 1) : SubSeq(s, i, i + Len(sub) - 1) = sub

UpperCase == <<"A", "B", "C", "D", "E", "F", "G", "H", "I", "J", "K", "L", "M",
               "N", "O", "P", "Q", "R", "S", "T", "U", "V", "W", "X", "Y", "Z">>
LowerCase == <<"a", "b", "c", "d", "e", "f", "g", "h", "i", "j", "k", "l", "m",
               "n", "o", "p", "q", "r", "s", "t", "u", "v", "w", "x", "y", "z">>

SToLowerChar(c) ==
    IF \E i \in 1..Len(UpperCase) : UpperCase[i] = c
    THEN LowerCase[CHOOSE i \in 1..Len(UpperCase) : UpperCase[i] = c]
    ELSE c

SToLower(s) == [i \in 1..Len(s) |-> SToLowerChar(s[i])]

\* Case-insensitive equality.
SIEquals(a, b) == SToLower(a) = SToLower(b)

(* STable (map<string,string>) and its JSON serialisation *)
ContentKey == <<"k">>
ContentVal == <<"v">>
EmptyTable == <<>>
\* The keys of the model's tables, in map (sorted) order.
KeyOrder == <<ContentKey>>

TableEmpty(t) == DOMAIN t = {}
TablePut(t, k, v) == [x \in (DOMAIN t) \cup {k} |-> IF x = k THEN v ELSE t[x]]

Quoted(s) == <<"\"">> \o s \o <<"\"">>

RECURSIVE ComposeMembers(_, _, _)
ComposeMembers(t, keys, first) ==
    IF keys = <<>> THEN <<>>
    ELSE IF Head(keys) \in DOMAIN t
         THEN (IF first THEN <<>> ELSE <<",">>)
              \o Quoted(Head(keys)) \o <<":">> \o Quoted(t[Head(keys)])
              \o ComposeMembers(t, Tail(keys), FALSE)
         ELSE ComposeMembers(t, Tail(keys), first)

SComposeJSONObject(t) == <<"{">> \o ComposeMembers(t, KeyOrder, TRUE) \o <<"}">>

RECURSIVE ComposeElements(_, _)
ComposeElements(l, first) ==
    IF l = <<>> THEN <<>>
    ELSE (IF first THEN <<>> ELSE <<",">>) \o Quoted(Head(l)) \o ComposeElements(Tail(l), FALSE)

SComposeJSONArray(l) == <<"[">> \o ComposeElements(l, TRUE) \o <<"]">>


(* ----------------------------------------------------------------- state *)
VARIABLES
    enabled,        \* plugin -> BedrockPlugin::enabled()
    cmd,            \* the Command the hooks are called on
    db,             \* the SQLite handle: the transaction state
    pc,             \* position inside the hook that is running; "idle" between hooks
    op,             \* the hook that is running, or that returned last
    it,             \* pluginIt: position in g_registeredPluginList
    err,            \* the const char* thrown and caught in this invocation, if any
    ret,            \* what _peekCommand returned
    pluginHit,      \* the local pluginPeeked / pluginProcessed
    isQueryEmpty,   \* the local of _processCommand
    calls,          \* calls this invocation made on the db, the plugins and the owner
    log,            \* log lines this invocation wrote
    entry,          \* command->response when the hook was entered
    lastHook,       \* what the plugin hook called last did
    wrote,          \* what plugins wrote during this invocation: response fields, db
    openedBefore,   \* an earlier _processCommand has opened a transaction
    commandList     \* the local of ~BedrockNode

vars == <<enabled, cmd, db, pc, op, it, err, ret, pluginHit, isQueryEmpty,
          calls, log, entry, lastHook, wrote, openedBefore,
          commandList>>

(* The texts plugins raise: throw "..." *)
ErrTexts == {Err502, Err530, Err599, Err404, Err404Warn, Err502Warn,
             Err402Alert, Err500Hmmm, Err404WarnAlert, Err500HmmmWarn}

Methods == {StrUpgradeDatabase, MethodUpgradeLower, MethodBogus}

\* A Command as the server hands it to the node: empty response, no content.
NewCommands ==
    [request : [methodLine : Methods],
     response : [methodLine : {<<>>}, content : {<<>>}],
     jsonContent : {EmptyTable},
     httpsRequest : {"null"}]

\* SQLite handle with no transaction open.
ClosedDb == [insideTransaction |-> FALSE, uncommittedQuery |-> <<>>]

NoWrites == [methodLine |-> None, content |-> None, query |-> FALSE]

(* What one call of a plugin hook does to the command and the db before it *)
(* returns true, returns false or throws.                                  *)
PeekHooks ==
    { h \in [outcome : {"true", "false", "throw"},
             methodLine : {None, Some(Status300)},
             content : {None, Some(BodyRaw), Some(SComposeJSONObject(TablePut(EmptyTable, ContentKey, ContentVal)))},
             jsonContent : BOOLEAN,
             httpsRequest : {"keep", "owned", "ownerless"},
             write : {FALSE},
             e : {None} \cup {Some(t) : t \in ErrTexts}] :
        (h.outcome = "throw") <=> (h.e # None) }

ProcessHooks ==
    { h \in [outcome : {"true", "false", "throw"},
             methodLine : {None, Some(Status300)},
             content : {None, Some(BodyRaw), Some(SComposeJSONObject(TablePut(EmptyTable, ContentKey, ContentVal)))},
             jsonContent : BOOLEAN,
             httpsRequest : {"keep"},
             write : BOOLEAN,
             e : {None} \cup {Some(t) : t \in ErrTexts}] :
        (h.outcome = "throw") <=> (h.e # None) }

\* upgradeDatabase(node, db) returns void and is not given the command.
UpgradeHooks ==
    { h \in [outcome : {"return", "throw"},
             methodLine : {None}, content : {None}, jsonContent : {FALSE},
             httpsRequest : {"keep"},
             write : BOOLEAN,
             e : {None} \cup {Some(t) : t \in ErrTexts}] :
        (h.outcome = "throw") <=> (h.e # None) }

\* What the model remembers of the hook called last: how it ended and the
\* status line it chose.
HookSeen(h) == [outcome |-> h.outcome, methodLine |-> h.methodLine]
NoHook == [outcome |-> "none", methodLine |-> None]

\* The command after a hook that behaves as h.
HookCommand(c, h) ==
    [c EXCEPT !.response.methodLine = IF h.methodLine = None THEN @ ELSE h.methodLine[1],
              !.response.content = IF h.content = None THEN @ ELSE h.content[1],
              !.jsonContent = IF h.jsonContent THEN TablePut(@, ContentKey, ContentVal) ELSE @,
              !.httpsRequest = IF h.httpsRequest = "keep" THEN @ ELSE h.httpsRequest]

HookWrote(w, h) ==
    [methodLine |-> IF h.methodLine = None THEN w.methodLine ELSE h.methodLine,
     content |-> IF h.content = None THEN w.content ELSE h.content,
     query |-> (w.query \/ h.write)]

(* SQLite transaction primitives *)
DbBeginTransaction(d) == [insideTransaction |-> TRUE, uncommittedQuery |-> <<>>]
DbWrite(d) == [d EXCEPT !.uncommittedQuery = @ \o StrQuery]
DbGetUncommittedQuery(d) == d.uncommittedQuery
DbRollback(d) == [insideTransaction |-> FALSE, uncommittedQuery |-> <<>>]

\* One call the node makes: on a plugin (plugin = its position in the list), on
\* the db or on the sub-request's owner (plugin = 0), with how the call ended.
Call(fn, p, outcome, e) == [fn |-> fn, plugin |-> p, outcome |-> outcome, e |-> e]
LogLine(level, site, text) == [level |-> level, site |-> site, text |-> text]

Init ==
    /\ enabled \in [Plugins -> BOOLEAN]
    /\ cmd \in NewCommands
    /\ db = ClosedDb
    /\ pc = "idle"
    /\ op = "none"
    /\ it = 1
    /\ err = None
    /\ ret = FALSE
    /\ pluginHit = FALSE
    /\ isQueryEmpty = TRUE
    /\ calls = <<>>
    /\ log = <<>>
    /\ entry = cmd.response
    /\ lastHook = NoHook
    /\ wrote = NoWrites
    /\ openedBefore = FALSE
    /\ commandList = <<>>


\* _peekCommand returned false: the command waits to be processed.
Queued == pc = "idle" /\ op = "peek" /\ ~ret

\* A prepared transaction is waiting for SQLiteNode to commit it or roll it
\* back; SQLiteNode hands _processCommand no command until it has.
Committing == db.insideTransaction /\ db.uncommittedQuery # <<>>

(* ---------------------------------------------------------- _peekCommand *)
\* The if/else chain of the catch block: which log macro the message goes to.
PeekSeverity(e) ==
    IF SContains(e, StrAlertMarker) THEN "ALERT"
    ELSE IF SContains(e, StrWarnMarker) THEN "WARN"
    ELSE IF SContains(e, StrHmmmMarker) THEN "HMMM"
    ELSE IF SStartsWith(e, StrPrefix50) THEN "ALERT"
    ELSE "INFO"

\* if (!content.empty()) { ... response.content = newContent; }
PeekContentLog(c) ==
    IF /\ ~TableEmpty(c.jsonContent)
       /\ c.response.content # SComposeJSONObject(c.jsonContent)
       /\ c.response.content # <<>>
    THEN <<LogLine("WARN", "replace", <<>>)>>
    ELSE <<>>

PeekContent(c) ==
    IF /\ ~TableEmpty(c.jsonContent)
       /\ c.response.content # SComposeJSONObject(c.jsonContent)
    THEN [c EXCEPT !.response.content = SComposeJSONObject(c.jsonContent)]
    ELSE c

\* Where the loop goes after a hook returned true (break), returned false
\* (next plugin) or threw (catch block).
\* Faulty variant: a throw is not caught and leaves _peekCommand.
PeekAfterHook_Escapes(outcome) ==
    CASE outcome = "true" -> "peekAfterLoop"
      [] outcome = "false" -> "peekLoop"
      [] outcome = "throw" -> "idle"

PeekAfterHook(outcome) ==
    CASE outcome = "true" -> "peekAfterLoop"
      [] outcome = "false" -> "peekLoop"
      [] outcome = "throw" -> "peekCatch"

\* Entry: response.methodLine = "200 OK"; the plugin loop starts.
PeekCommand_Begin ==
    /\ pc = "idle"
    /\ op = "none"
    /\ op' = "peek"
    /\ entry' = cmd.response
    /\ cmd' = [cmd EXCEPT !.response.methodLine = Str200OK]
    /\ it' = 1
    /\ pluginHit' = FALSE
    /\ err' = None
    /\ ret' = FALSE
    /\ calls' = <<>>
    /\ log' = <<LogLine("DEBUG", "peeking", <<>>)>>
    /\ lastHook' = NoHook
    /\ wrote' = NoWrites
    /\ pc' = "peekLoop"
    /\ UNCHANGED <<enabled, commandList, openedBefore, db, isQueryEmpty>>

\* One iteration of the SFOREACH: plugin->enabled() && plugin->peekCommand(...)
PeekCommand_Plugin ==
    /\ pc = "peekLoop"
    /\ it <= NumPlugins
    /\ IF ~enabled[it]
       THEN /\ it' = it + 1
            /\ UNCHANGED <<cmd, pc, err, pluginHit, calls, log, lastHook, wrote>>
       ELSE \E h \in PeekHooks :
            /\ calls' = Append(calls, Call("peekCommand", it, h.outcome, h.e))
            /\ cmd' = HookCommand(cmd, h)
            /\ lastHook' = HookSeen(h)
            /\ wrote' = HookWrote(wrote, h)
            /\ err' = h.e
            /\ pluginHit' = (pluginHit \/ h.outcome = "true")
            /\ pc' = PeekAfterHook(h.outcome)
            /\ it' = IF pc' = "peekLoop" THEN it + 1 ELSE it
            /\ log' = IF h.outcome = "true"
                      THEN Append(log, LogLine("INFO", "peeked", <<>>))
                      ELSE log
    /\ UNCHANGED <<enabled, commandList, openedBefore, db, op, ret, isQueryEmpty, entry>>

\* The loop is over: by break, or with the list exhausted.
PeekLoopOver == pc = "peekAfterLoop" \/ (pc = "peekLoop" /\ it > NumPlugins)

\* Faulty variant: content is encoded before the return false.
PeekCommand_NotPeeked_Serializes ==
    /\ PeekLoopOver
    /\ ~pluginHit
    /\ log' = Append(log, LogLine("INFO", "notPeekable", <<>>))
    /\ cmd' = PeekContent(cmd)
    /\ ret' = FALSE
    /\ pc' = "idle"
    /\ UNCHANGED <<enabled, commandList, openedBefore, db, op, it, err, pluginHit, isQueryEmpty, calls,
                   entry, lastHook, wrote>>

\* if (!pluginPeeked) return false;
PeekCommand_NotPeeked ==
    /\ PeekLoopOver
    /\ ~pluginHit
    /\ log' = Append(log, LogLine("INFO", "notPeekable", <<>>))
    /\ ret' = FALSE
    /\ pc' = "idle"
    /\ UNCHANGED <<enabled, commandList, openedBefore, cmd, db, op, it, err, pluginHit, isQueryEmpty, calls,
                   entry, lastHook, wrote>>

\* Faulty variant: the status line is set to "200 OK" after the dispatch.
PeekCommand_Success_Overwrites ==
    /\ PeekLoopOver
    /\ pluginHit
    /\ log' = Append(log, LogLine("INFO", "responding", <<>>)) \o PeekContentLog(cmd)
    /\ cmd' = [PeekContent(cmd) EXCEPT !.response.methodLine = Str200OK]
    /\ ret' = TRUE
    /\ pc' = "idle"
    /\ UNCHANGED <<enabled, commandList, openedBefore, db, op, it, err, pluginHit, isQueryEmpty, calls,
                   entry, lastHook, wrote>>

\* Success: content is encoded in the response; return true.
PeekCommand_Success ==
    /\ PeekLoopOver
    /\ pluginHit
    /\ log' = Append(log, LogLine("INFO", "responding", <<>>)) \o PeekContentLog(cmd)
    /\ cmd' = PeekContent(cmd)
    /\ ret' = TRUE
    /\ pc' = "idle"
    /\ UNCHANGED <<enabled, commandList, openedBefore, db, op, it, err, pluginHit, isQueryEmpty, calls,
                   entry, lastHook, wrote>>

\* Faulty variant: the catch block forgets response.methodLine = e.
PeekCommand_Catch_KeepsStatus ==
    /\ pc = "peekCatch"
    /\ log' = Append(log, LogLine(PeekSeverity(err[1]), "error", err[1]))
    /\ ret' = TRUE
    /\ pc' = "idle"
    /\ UNCHANGED <<enabled, commandList, openedBefore, cmd, db, op, it, err, pluginHit, isQueryEmpty, calls,
                   entry, lastHook, wrote>>

\* Faulty variant: the catch block rolls the database back, as its comment says.
PeekCommand_Catch_RollsBack ==
    /\ pc = "peekCatch"
    /\ calls' = Append(calls, Call("rollback", 0, "void", None))
    /\ db' = DbRollback(db)
    /\ log' = Append(log, LogLine(PeekSeverity(err[1]), "error", err[1]))
    /\ cmd' = [cmd EXCEPT !.response.methodLine = err[1]]
    /\ ret' = TRUE
    /\ pc' = "idle"
    /\ UNCHANGED <<enabled, commandList, openedBefore, op, it, err, pluginHit, isQueryEmpty,
                   entry, lastHook, wrote>>

\* catch (const char* e): classify, log, response.methodLine = e; return true.
PeekCommand_Catch ==
    /\ pc = "peekCatch"
    /\ log' = Append(log, LogLine(PeekSeverity(err[1]), "error", err[1]))
    /\ cmd' = [cmd EXCEPT !.response.methodLine = err[1]]
    /\ ret' = TRUE
    /\ pc' = "idle"
    /\ UNCHANGED <<enabled, commandList, openedBefore, db, op, it, err, pluginHit, isQueryEmpty, calls,
                   entry, lastHook, wrote>>

(* ------------------------------------------------------- _processCommand *)
\* Faulty variant: the numeric prefix is tested before the markers.
ProcessSeverity_PrefixFirst(e) ==
    IF SStartsWith(e, StrPrefix50) THEN "ALERT"
    ELSE IF SContains(e, StrAlertMarker) THEN "ALERT"
    ELSE IF SContains(e, StrWarnMarker) THEN "WARN"
    ELSE IF SContains(e, StrHmmmMarker) THEN "HMMM"
    ELSE "INFO"

ProcessSeverity(e) ==
    IF SContains(e, StrAlertMarker) THEN "ALERT"
    ELSE IF SContains(e, StrWarnMarker) THEN "WARN"
    ELSE IF SContains(e, StrHmmmMarker) THEN "HMMM"
    ELSE IF SStartsWith(e, StrPrefix50) THEN "ALERT"
    ELSE "INFO"

\* Faulty variant: the warning does not depend on the body being non-empty.
ProcessContentLog_AlwaysWarns(c) ==
    IF /\ ~TableEmpty(c.jsonContent)
       /\ c.response.content # SComposeJSONObject(c.jsonContent)
    THEN <<LogLine("WARN", "replace", <<>>)>>
    ELSE <<>>

ProcessContentLog(c) ==
    IF /\ ~TableEmpty(c.jsonContent)
       /\ c.response.content # SComposeJSONObject(c.jsonContent)
       /\ c.response.content # <<>>
    THEN <<LogLine("WARN", "replace", <<>>)>>
    ELSE <<>>

ProcessContent(c) ==
    IF /\ ~TableEmpty(c.jsonContent)
       /\ c.response.content # SComposeJSONObject(c.jsonContent)
    THEN [c EXCEPT !.response.content = SComposeJSONObject(c.jsonContent)]
    ELSE c

\* if (SIEquals(request.methodLine, "UpgradeDatabase")) ... else ...
\* Faulty variant: the method is compared as an exact string.
ProcessBranch_Exact(methodLine) ==
    IF methodLine = StrUpgradeDatabase THEN "upgradeLoop" ELSE "processLoop"

ProcessBranch(methodLine) ==
    IF SIEquals(methodLine, StrUpgradeDatabase) THEN "upgradeLoop" ELSE "processLoop"

\* Faulty variant: the loop has no break after a plugin processed the command.
ProcessAfterHook_NoBreak(outcome) ==
    CASE outcome = "true" -> "processLoop"
      [] outcome = "false" -> "processLoop"
      [] outcome = "throw" -> "processCatch"

ProcessAfterHook(outcome) ==
    CASE outcome = "true" -> "processAfterLoop"
      [] outcome = "false" -> "processLoop"
      [] outcome = "throw" -> "processCatch"

\* Faulty variant: the upgrade stops after the first enabled plugin.
UpgradeAfterHook_ShortCircuit(outcome) ==
    CASE outcome = "return" -> "commit"
      [] outcome = "throw" -> "processCatch"

\* The for_each lambda has no result to look at: only a throw leaves the loop.
UpgradeAfterHook(outcome) ==
    CASE outcome = "return" -> "upgradeLoop"
      [] outcome = "throw" -> "processCatch"

\* Faulty variant: the result of db.beginTransaction() is ignored.
ProcessCommand_Begin_IgnoresFailure ==
    /\ pc = "idle"
    /\ Queued
    /\ ~Committing
    /\ op' = "process"
    /\ entry' = cmd.response
    /\ it' = 1
    /\ pluginHit' = FALSE
    /\ ret' = FALSE
    /\ isQueryEmpty' = TRUE
    /\ log' = <<LogLine("DEBUG", "received", <<>>)>>
    /\ lastHook' = NoHook
    /\ wrote' = NoWrites
    /\ \E ok \in BOOLEAN :
         /\ calls' = <<Call("beginTransaction", 0, IF ok THEN "true" ELSE "false", None)>>
         /\ db' = IF ok THEN DbBeginTransaction(db) ELSE db
         /\ err' = None
         /\ pc' = ProcessBranch(cmd.request.methodLine)
    /\ UNCHANGED <<enabled, commandList, openedBefore, cmd>>

\* Entry: db.beginTransaction(), which may fail; then the branch on the method.
ProcessCommand_Begin ==
    /\ pc = "idle"
    /\ Queued
    /\ ~Committing
    /\ op' = "process"
    /\ entry' = cmd.response
    /\ it' = 1
    /\ pluginHit' = FALSE
    /\ ret' = FALSE
    /\ isQueryEmpty' = TRUE
    /\ log' = <<LogLine("DEBUG", "received", <<>>)>>
    /\ lastHook' = NoHook
    /\ wrote' = NoWrites
    /\ \E ok \in BOOLEAN :
         IF ok
         THEN /\ calls' = <<Call("beginTransaction", 0, "true", None)>>
              /\ db' = DbBeginTransaction(db)
              /\ err' = None
              /\ pc' = ProcessBranch(cmd.request.methodLine)
         ELSE /\ calls' = <<Call("beginTransaction", 0, "false", None)>>
              /\ db' = db
              /\ err' = Some(Str501Begin)
              /\ pc' = "processCatch"
    /\ UNCHANGED <<enabled, commandList, openedBefore, cmd>>

\* One step of the for_each: if (plugin->enabled()) plugin->upgradeDatabase(this, db);
ProcessCommand_Upgrade ==
    /\ pc = "upgradeLoop"
    /\ it <= NumPlugins
    /\ IF ~enabled[it]
       THEN /\ it' = it + 1
            /\ UNCHANGED <<db, pc, err, calls, lastHook, wrote>>
       ELSE \E h \in UpgradeHooks :
            /\ calls' = Append(calls, Call("upgradeDatabase", it, h.outcome, h.e))
            /\ db' = IF h.write THEN DbWrite(db) ELSE db
            /\ lastHook' = HookSeen(h)
            /\ wrote' = HookWrote(wrote, h)
            /\ err' = h.e
            /\ pc' = UpgradeAfterHook(h.outcome)
            /\ it' = IF pc' = "upgradeLoop" THEN it + 1 ELSE it
    /\ UNCHANGED <<enabled, commandList, openedBefore, cmd, op, ret, pluginHit, isQueryEmpty, log, entry>>

\* SINFO("Finished upgrading database")
ProcessCommand_Upgraded ==
    /\ pc = "upgradeLoop"
    /\ it > NumPlugins
    /\ log' = Append(log, LogLine("INFO", "upgraded", <<>>))
    /\ pc' = "commit"
    /\ UNCHANGED <<enabled, commandList, openedBefore, cmd, db, op, it, err, ret, pluginHit, isQueryEmpty,
                   calls, entry, lastHook, wrote>>

\* One iteration of the SFOREACH: plugin->enabled() && plugin->processCommand(...)
ProcessCommand_Plugin ==
    /\ pc = "processLoop"
    /\ it <= NumPlugins
    /\ IF ~enabled[it]
       THEN /\ it' = it + 1
            /\ UNCHANGED <<cmd, db, pc, err, pluginHit, calls, log, lastHook, wrote>>
       ELSE \E h \in ProcessHooks :
            /\ calls' = Append(calls, Call("processCommand", it, h.outcome, h.e))
            /\ cmd' = HookCommand(cmd, h)
            /\ db' = IF h.write THEN DbWrite(db) ELSE db
            /\ lastHook' = HookSeen(h)
            /\ wrote' = HookWrote(wrote, h)
            /\ err' = h.e
            /\ pluginHit' = (pluginHit \/ h.outcome = "true")
            /\ pc' = ProcessAfterHook(h.outcome)
            /\ it' = IF pc' = "processLoop" THEN it + 1 ELSE it
            /\ log' = IF h.outcome = "true"
                      THEN Append(log, LogLine("INFO", "processed", <<>>))
                      ELSE log
    /\ UNCHANGED <<enabled, commandList, openedBefore, op, ret, isQueryEmpty, entry>>

ProcessLoopOver == pc = "processAfterLoop" \/ (pc = "processLoop" /\ it > NumPlugins)

\* Faulty variant: the unrecognized command is logged but nothing is thrown.
ProcessCommand_NotProcessed_NoThrow ==
    /\ ProcessLoopOver
    /\ ~pluginHit
    /\ log' = Append(log, LogLine("WARN", "doesNotExist", <<>>))
    /\ pc' = "commit"
    /\ UNCHANGED <<enabled, commandList, openedBefore, cmd, db, op, it, err, ret, pluginHit, isQueryEmpty,
                   calls, entry, lastHook, wrote>>

\* if (!pluginProcessed) { SWARN(...); throw "430 Unrecognized command"; }
ProcessCommand_NotProcessed ==
    /\ ProcessLoopOver
    /\ ~pluginHit
    /\ log' = Append(log, LogLine("WARN", "doesNotExist", <<>>))
    /\ err' = Some(Str430)
    /\ pc' = "processCatch"
    /\ UNCHANGED <<enabled, commandList, openedBefore, cmd, db, op, it, ret, pluginHit, isQueryEmpty, calls,
                   entry, lastHook, wrote>>

\* Faulty variant: the test of the uncommitted query is inverted.
IsQueryEmpty_Inverted(d) == DbGetUncommittedQuery(d) # <<>>

\* db.getUncommittedQuery().empty()
IsQueryEmpty(d) == DbGetUncommittedQuery(d) = <<>>

\* bool isQueryEmpty = db.getUncommittedQuery().empty();
\* if (isQueryEmpty) db.rollback(); else if (!db.prepare()) throw "501 ...";
\* then, on success, content is encoded in the response.
ProcessCommand_Commit ==
    /\ pc = "commit" \/ (ProcessLoopOver /\ pluginHit)
    /\ isQueryEmpty' = IsQueryEmpty(db)
    /\ IF isQueryEmpty'
       THEN /\ calls' = calls \o <<Call("getUncommittedQuery", 0, "empty", None),
                                      Call("rollback", 0, "void", None)>>
            /\ db' = DbRollback(db)
            /\ log' = Append(log, LogLine("INFO", "responding", <<>>)) \o ProcessContentLog(cmd)
            /\ cmd' = ProcessContent(cmd)
            /\ pc' = "idle"
            /\ err' = err
       ELSE \E ok \in BOOLEAN :
            /\ calls' = calls \o <<Call("getUncommittedQuery", 0, "nonempty", None),
                                      Call("prepare", 0, IF ok THEN "true" ELSE "false", None)>>
            /\ db' = db
            /\ IF ok
               THEN /\ log' = Append(log, LogLine("INFO", "responding", <<>>)) \o ProcessContentLog(cmd)
                    /\ cmd' = ProcessContent(cmd)
                    /\ pc' = "idle"
                    /\ err' = err
               ELSE /\ log' = log
                    /\ cmd' = cmd
                    /\ pc' = "processCatch"
                    /\ err' = Some(Str501Prepare)
    /\ openedBefore' = TRUE
    /\ UNCHANGED <<enabled, commandList, op, it, ret, pluginHit, entry, lastHook, wrote>>

\* Faulty variant: the catch block forgets db.rollback().
ProcessCommand_Catch_NoRollback ==
    /\ pc = "processCatch"
    /\ log' = Append(log, LogLine(ProcessSeverity(err[1]), "error", err[1]))
    /\ cmd' = [cmd EXCEPT !.response.methodLine = err[1]]
    /\ pc' = "idle"
    /\ openedBefore' = (openedBefore \/ calls[1].outcome = "true")
    /\ UNCHANGED <<enabled, commandList, db, op, it, err, ret, pluginHit, isQueryEmpty, calls,
                   entry, lastHook, wrote>>

\* Faulty variant: the catch block also encodes content in the response.
ProcessCommand_Catch_Serializes ==
    /\ pc = "processCatch"
    /\ calls' = Append(calls, Call("rollback", 0, "void", None))
    /\ db' = DbRollback(db)
    /\ log' = Append(log, LogLine(ProcessSeverity(err[1]), "error", err[1]))
    /\ cmd' = [ProcessContent(cmd) EXCEPT !.response.methodLine = err[1]]
    /\ pc' = "idle"
    /\ openedBefore' = (openedBefore \/ calls[1].outcome = "true")
    /\ UNCHANGED <<enabled, commandList, op, it, err, ret, pluginHit, isQueryEmpty, entry,
                   lastHook, wrote>>

\* catch (const char* e): db.rollback(); classify, log; response.methodLine = e.
ProcessCommand_Catch ==
    /\ pc = "processCatch"
    /\ calls' = Append(calls, Call("rollback", 0, "void", None))
    /\ db' = DbRollback(db)
    /\ log' = Append(log, LogLine(ProcessSeverity(err[1]), "error", err[1]))
    /\ cmd' = [cmd EXCEPT !.response.methodLine = err[1]]
    /\ pc' = "idle"
    /\ openedBefore' = (openedBefore \/ calls[1].outcome = "true")
    /\ UNCHANGED <<enabled, commandList, op, it, err, ret, pluginHit, isQueryEmpty, entry,
                   lastHook, wrote>>


(* ---------------------------------------------------------- _abortCommand *)
\* Faulty variant: abort also rolls the transaction back.
AbortCommand_RollsBack ==
    /\ pc = "idle"
    /\ Queued \/ op = "process"
    /\ op' = "abort"
    /\ entry' = cmd.response
    /\ cmd' = [cmd EXCEPT !.response.methodLine = Str500Aborted]
    /\ err' = None
    /\ calls' = <<Call("rollback", 0, "void", None)>>
    /\ db' = DbRollback(db)
    /\ log' = <<>>
    /\ lastHook' = NoHook
    /\ wrote' = NoWrites
    /\ UNCHANGED <<enabled, commandList, openedBefore, pc, it, ret, pluginHit, isQueryEmpty>>

\* command->response.methodLine = "500 ABORTED";
AbortCommand ==
    /\ pc = "idle"
    /\ Queued \/ op = "process"
    /\ op' = "abort"
    /\ entry' = cmd.response
    /\ cmd' = [cmd EXCEPT !.response.methodLine = Str500Aborted]
    /\ err' = None
    /\ calls' = <<>>
    /\ log' = <<>>
    /\ lastHook' = NoHook
    /\ wrote' = NoWrites
    /\ UNCHANGED <<enabled, commandList, openedBefore, db, pc, it, ret, pluginHit, isQueryEmpty>>

(* ---------------------------------------------------------- _cleanCommand *)
\* Faulty variant: the reference is cleared only in the branch with an owner.
CleanCommand_KeepsOwnerless ==
    /\ pc = "idle"
    /\ op \in {"peek", "process", "abort", "clean"}
    /\ ~Queued
    /\ op' = "clean"
    /\ entry' = cmd.response
    /\ err' = None
    /\ lastHook' = NoHook
    /\ wrote' = NoWrites
    /\ calls' = IF cmd.httpsRequest = "owned"
                THEN <<Call("closeTransaction", 0, "void", None)>> ELSE <<>>
    /\ log' = IF cmd.httpsRequest = "ownerless"
              THEN <<LogLine("ERROR", "noOwner", <<>>)>> ELSE <<>>
    /\ cmd' = IF cmd.httpsRequest = "owned" THEN [cmd EXCEPT !.httpsRequest = "null"] ELSE cmd
    /\ UNCHANGED <<enabled, commandList, openedBefore, db, pc, it, ret, pluginHit, isQueryEmpty>>

\* if (command->httpsRequest) { owner->closeTransaction(...) or SERROR;
\* command->httpsRequest = 0; }  It may be called again on a cleaned command.
CleanCommand ==
    /\ pc = "idle"
    /\ op \in {"peek", "process", "abort", "clean"}
    /\ ~Queued
    /\ op' = "clean"
    /\ entry' = cmd.response
    /\ err' = None
    /\ lastHook' = NoHook
    /\ wrote' = NoWrites
    /\ calls' = IF cmd.httpsRequest = "owned"
                THEN <<Call("closeTransaction", 0, "void", None)>> ELSE <<>>
    /\ log' = IF cmd.httpsRequest = "ownerless"
              THEN <<LogLine("ERROR", "noOwner", <<>>)>> ELSE <<>>
    /\ cmd' = [cmd EXCEPT !.httpsRequest = "null"]
    /\ UNCHANGED <<enabled, commandList, openedBefore, db, pc, it, ret, pluginHit, isQueryEmpty>>

(* ------------------------------------------------------------ environment *)
\* The server hands the node another command.
NewCommand ==
    /\ pc = "idle"
    /\ op = "clean"
    /\ cmd' \in NewCommands
    /\ op' = "none"
    /\ entry' = cmd'.response
    /\ err' = None
    /\ ret' = FALSE
    /\ calls' = <<>>
    /\ log' = <<>>
    /\ lastHook' = NoHook
    /\ wrote' = NoWrites
    /\ UNCHANGED <<enabled, commandList, openedBefore, db, pc, it, pluginHit, isQueryEmpty>>

\* SQLiteNode finishes (commits or rolls back) the transaction a successful
\* prepare left open.
EngineFinish ==
    /\ pc = "idle"
    /\ db.insideTransaction
    /\ db' = ClosedDb
    /\ UNCHANGED <<enabled, commandList, openedBefore, cmd, pc, op, it, err, ret, pluginHit, isQueryEmpty,
                   calls, log, entry, lastHook, wrote>>

(* ------------------------------------------------------------ ~BedrockNode *)
\* The commands SQLiteNode holds queued behind the one the hooks are called on.
Backlogs == UNION { [1..n -> Methods] : n \in 0..MaxWaiting }

\* SQLiteNode::getQueuedCommandList(): the command that peek left for
\* processing, if it is still waiting, and the commands queued behind it.
GetQueuedCommandList(waiting) ==
    (IF Queued THEN <<cmd.request.methodLine>> ELSE <<>>) \o waiting

\* Faulty variant: a single queued command is not reported.
Shutdown_OnlyIfSeveral ==
    /\ pc = "idle"
    /\ pc' = "down"
    /\ op' = "shutdown"
    /\ \E waiting \in Backlogs :
         /\ commandList' = GetQueuedCommandList(waiting)
         /\ log' = IF Len(commandList') > 1
                   THEN <<LogLine("ALERT", "queued", StrQueuedPrefix \o SComposeJSONArray(commandList'))>>
                   ELSE <<>>
    /\ entry' = cmd.response
    /\ err' = None
    /\ calls' = <<>>
    /\ lastHook' = NoHook
    /\ wrote' = NoWrites
    /\ UNCHANGED <<enabled, openedBefore, cmd, db, it, ret, pluginHit, isQueryEmpty>>

\* commandList = getQueuedCommandList();
\* if (!commandList.empty()) SALERT("Queued: " << SComposeJSONArray(commandList));
Shutdown ==
    /\ pc = "idle"
    /\ pc' = "down"
    /\ op' = "shutdown"
    /\ \E waiting \in Backlogs :
         /\ commandList' = GetQueuedCommandList(waiting)
         /\ log' = IF commandList' # <<>>
                   THEN <<LogLine("ALERT", "queued", StrQueuedPrefix \o SComposeJSONArray(commandList'))>>
                   ELSE <<>>
    /\ entry' = cmd.response
    /\ err' = None
    /\ calls' = <<>>
    /\ lastHook' = NoHook
    /\ wrote' = NoWrites
    /\ UNCHANGED <<enabled, openedBefore, cmd, db, it, ret, pluginHit, isQueryEmpty>>

Next ==
    \/ PeekCommand_Begin
    \/ PeekCommand_Plugin
    \/ PeekCommand_NotPeeked
    \/ PeekCommand_Success
    \/ PeekCommand_Catch
    \/ ProcessCommand_Begin
    \/ ProcessCommand_Upgrade
    \/ ProcessCommand_Upgraded
    \/ ProcessCommand_Plugin
    \/ ProcessCommand_NotProcessed
    \/ ProcessCommand_Commit
    \/ ProcessCommand_Catch
    \/ AbortCommand
    \/ CleanCommand
    \/ NewCommand
    \/ EngineFinish
    \/ Shutdown

Spec == Init /\ [][Next]_vars


(* ================================================================ claims *)
CallCount(fn) == Cardinality({i \in DOMAIN calls : calls[i].fn = fn})
CallsOf(fn) == SelectSeq(calls, LAMBDA c : c.fn = fn)
ErrorLines == SelectSeq(log, LAMBDA l : l.site = "error")
Returned(o) == pc = "idle" /\ op = o

\* C1: every _processCommand invocation that ends in an error (begin failed, a
\* hook threw, nobody claimed the command, prepare failed) called db.rollback()
\* exactly once, and no transaction is open when it returns.
C1_ErrorRollsBackOnce ==
    (Returned("process") /\ err # None)
        => (CallCount("rollback") = 1 /\ ~db.insideTransaction)

\* A process invocation that returned after a failed prepare.
C1_Witness == Returned("process") /\ err = Some(Str501Prepare)

Digits == {"0", "1", "2", "3", "4", "5", "6", "7", "8", "9"}

\* The text starts with a three-digit number between 500 and 599.
Prefix5xx(e) ==
    /\ Len(e) >= 3
    /\ e[1] = "5" /\ e[2] \in Digits /\ e[3] \in Digits
    /\ (Len(e) = 3 \/ e[4] \notin Digits)

Unmarked(e) ==
    /\ ~SContains(e, StrAlertMarker)
    /\ ~SContains(e, StrWarnMarker)
    /\ ~SContains(e, StrHmmmMarker)

\* C2: in peek and in process, an error text with none of the markers is logged
\* as an alert when its numeric prefix is anywhere in 500-599, and as info
\* otherwise.
C2_AlertOnEvery5xx ==
    (pc = "idle" /\ op \in {"peek", "process"} /\ err # None /\ Unmarked(err[1]))
        => /\ Len(ErrorLines) = 1
           /\ ErrorLines[1].level = IF Prefix5xx(err[1]) THEN "ALERT" ELSE "INFO"

\* C3: an error raised inside peek or process never leaves it: once a hook has
\* thrown, control is in the catch block or back with the caller, and on return
\* the error was classified and logged exactly once and is the status line.
C3_ErrorsAreCaught ==
    /\ \A i \in DOMAIN calls :
         calls[i].outcome = "throw"
            => /\ err = calls[i].e
               /\ pc \in {"peekCatch", "processCatch", "idle"}
    /\ (pc = "idle" /\ op \in {"peek", "process"} /\ err # None)
          => /\ Len(ErrorLines) = 1
             /\ ErrorLines[1].text = err[1]
             /\ cmd.response.methodLine = err[1]

\* A peek that returned after a plugin threw.
C3_Witness ==
    /\ Returned("peek")
    /\ calls # <<>>
    /\ calls[Len(calls)].outcome = "throw"

\* The dispatch of this process invocation ended without an error: a plugin
\* claimed the command, or the upgrade loop ran to its end.
DispatchFinished ==
    /\ Returned("process")
    /\ CallsOf("beginTransaction") = <<Call("beginTransaction", 0, "true", None)>>
    /\ \A i \in DOMAIN calls : calls[i].outcome # "throw"
    /\ \/ \E i \in DOMAIN calls : calls[i].fn = "processCommand" /\ calls[i].outcome = "true"
       \/ SIEquals(cmd.request.methodLine, StrUpgradeDatabase)

PrepareFailed == \E i \in DOMAIN calls : calls[i].fn = "prepare" /\ calls[i].outcome = "false"

\* C4: after a dispatch without error, a transaction without uncommitted query
\* is rolled back once and never prepared; one with an uncommitted query is
\* prepared once, and rolled back only if the prepare fails.
C4_RollbackOrPrepare ==
    DispatchFinished
        => IF ~wrote.query
           THEN CallCount("rollback") = 1 /\ CallCount("prepare") = 0
           ELSE /\ CallCount("prepare") = 1
                /\ CallCount("rollback") = (IF PrepareFailed THEN 1 ELSE 0)

\* A process invocation whose plugin wrote to the db and whose prepare succeeded.
C4_Witness ==
    /\ DispatchFinished
    /\ wrote.query
    /\ CallCount("prepare") = 1
    /\ err = None


\* Peek returned and every plugin hook it called returned false.
PeekUnclaimed ==
    /\ Returned("peek")
    /\ \A i \in DOMAIN calls : calls[i].outcome = "false"

\* The status line and the body as the plugins consulted in this invocation
\* left them: what a plugin wrote last, else the given default.
StatusLeft(default) == IF wrote.methodLine = None THEN default ELSE wrote.methodLine[1]
BodyLeft(default) == IF wrote.content = None THEN default ELSE wrote.content[1]

\* C5 as stated: when no plugin claims the command (and none raises), peek
\* returns false and the response is its value on entry with the status line
\* "200 OK": nothing else of the attempt is kept.
C5_OnlyStatusChanged ==
    PeekUnclaimed
        => /\ ~ret
           /\ cmd.response = [methodLine |-> Str200OK, content |-> entry.content]

\* C5 amended: when no plugin claims the command (and none raises), peek
\* returns false; the node itself changed only the status line, to "200 OK",
\* before dispatch, and serialized no content: status line and body are what the
\* declining plugins wrote last, else "200 OK" and the body on entry.
C5_OnlyStatusAndPluginWrites ==
    PeekUnclaimed
        => /\ ~ret
           /\ cmd.response = [methodLine |-> StatusLeft(Str200OK),
                              content |-> BodyLeft(entry.content)]

\* An unclaimed peek during which a declining plugin filled content but wrote
\* no body.
C5_Witness ==
    /\ PeekUnclaimed
    /\ calls # <<>>
    /\ ~TableEmpty(cmd.jsonContent)
    /\ wrote.content = None

\* C6: when a plugin raises during peek, no plugin after it is consulted, peek
\* returns true and the status line is exactly the raised text.
C6_PeekErrorFinishes ==
    op = "peek"
        => \A i \in DOMAIN calls :
             calls[i].outcome = "throw"
                => /\ i = Len(calls)
                   /\ pc = "idle" => (ret /\ cmd.response.methodLine = calls[i].e[1])

\* Peek returned after a plugin raised while an enabled plugin was registered
\* after it.
C6_Witness ==
    /\ Returned("peek")
    /\ enabled[NumPlugins]
    /\ \E i \in DOMAIN calls : calls[i].outcome = "throw" /\ calls[i].plugin < NumPlugins

\* Peek returned and a plugin hook had claimed the command.
PeekClaimed ==
    /\ Returned("peek")
    /\ \E i \in DOMAIN calls : calls[i].outcome = "true"

\* C7 as stated: when a plugin claims the command in peek, peek returns true
\* and the status line is the one the claiming plugin chose, "200 OK" if it
\* chose none.
C7_StatusIsClaimantsChoice ==
    PeekClaimed
        => /\ ret
           /\ cmd.response.methodLine =
                IF lastHook.methodLine = None THEN Str200OK ELSE lastHook.methodLine[1]

\* C7 amended: when a plugin claims the command in peek, peek returns true and
\* the status line is the one a consulted plugin wrote last (the claimant's if
\* it chose one, else one an earlier declining plugin left), "200 OK" if none
\* wrote one: the node does not overwrite the status after dispatch.
C7_StatusIsLastPluginWrite ==
    PeekClaimed
        => /\ ret
           /\ cmd.response.methodLine = StatusLeft(Str200OK)

\* A claimed peek that returned with the status line a plugin chose.
C7_Witness == PeekClaimed /\ cmd.response.methodLine = Status300

\* The plugins on which hook fn was called in this invocation, in call order.
PluginSeq(fn) == [i \in 1..Len(CallsOf(fn)) |-> CallsOf(fn)[i].plugin]

\* The enabled plugins among the first n of the list, in registration order.
EnabledUpTo(n) == SelectSeq([i \in 1..n |-> i], LAMBDA p : enabled[p])

\* The first plugin whose hook fn ended in one of the outcomes; the last
\* plugin of the list if none did.
FirstWith(fn, outcomes) ==
    IF \E i \in DOMAIN CallsOf(fn) : CallsOf(fn)[i].outcome \in outcomes
    THEN CallsOf(fn)[CHOOSE i \in DOMAIN CallsOf(fn) :
                        /\ CallsOf(fn)[i].outcome \in outcomes
                        /\ \A j \in 1..(i - 1) : CallsOf(fn)[j].outcome \notin outcomes].plugin
    ELSE NumPlugins

BeginSucceeded ==
    CallsOf("beginTransaction") = <<Call("beginTransaction", 0, "true", None)>>

\* The dispatch of hook fn ran in the invocation that returned.
Dispatched(fn) ==
    IF fn = "peekCommand"
    THEN Returned("peek")
    ELSE /\ Returned("process")
         /\ BeginSucceeded
         /\ ~SIEquals(cmd.request.methodLine, StrUpgradeDatabase)

\* C8 as stated: the hooks invoked in a peek or process dispatch are exactly
\* those of the enabled plugins, in registration order, up to and including the
\* first plugin that claims the command.
C8_UpToFirstClaimant ==
    \A fn \in {"peekCommand", "processCommand"} :
        Dispatched(fn) => PluginSeq(fn) = EnabledUpTo(FirstWith(fn, {"true"}))

\* C8 amended: ... up to and including the first plugin that claims the
\* command or raises an error.
C8_UpToFirstClaimantOrRaise ==
    \A fn \in {"peekCommand", "processCommand"} :
        Dispatched(fn) => PluginSeq(fn) = EnabledUpTo(FirstWith(fn, {"true", "throw"}))

\* A process dispatch that a plugin claimed while an enabled plugin was
\* registered after it.
C8_Witness ==
    /\ Dispatched("processCommand")
    /\ enabled[NumPlugins]
    /\ \E i \in DOMAIN calls :
         /\ calls[i].fn = "processCommand"
         /\ calls[i].outcome = "true"
         /\ calls[i].plugin < NumPlugins

\* Process returned for the command "UpgradeDatabase" and its transaction had
\* opened.
UpgradeRan ==
    /\ Returned("process")
    /\ cmd.request.methodLine = StrUpgradeDatabase
    /\ BeginSucceeded

\* C9 as stated: for "UpgradeDatabase" every enabled plugin's upgrade hook is
\* invoked exactly once, in registration order, whatever an earlier hook does;
\* no process hook is invoked.
C9_EveryEnabledUpgraded ==
    UpgradeRan
        => /\ PluginSeq("upgradeDatabase") = EnabledUpTo(NumPlugins)
           /\ CallCount("processCommand") = 0

\* C9 amended: ... every enabled plugin's upgrade hook is invoked exactly once,
\* in registration order, up to and including the first one that raises an
\* error (all of them if none raises); no process hook is invoked.
C9_EnabledUpgradedUntilRaise ==
    UpgradeRan
        => /\ PluginSeq("upgradeDatabase") = EnabledUpTo(FirstWith("upgradeDatabase", {"throw"}))
           /\ CallCount("processCommand") = 0

\* An upgrade in which two plugins' hooks ran and none raised.
C9_Witness ==
    /\ UpgradeRan
    /\ err = None
    /\ Len(CallsOf("upgradeDatabase")) >= 2

\* Process returned for a command that is not the upgrade command, after every
\* plugin hook called had declined it.
ProcessUnclaimed ==
    /\ Dispatched("processCommand")
    /\ \A i \in DOMAIN CallsOf("processCommand") :
         CallsOf("processCommand")[i].outcome = "false"

\* C10: a non-upgrade command that no plugin claims in process (and for which
\* none raises) returns with the status line "430 Unrecognized command", the
\* transaction rolled back and prepare never called.
C10_UnrecognizedCommand ==
    ProcessUnclaimed
        => /\ cmd.response.methodLine = Str430
           /\ CallCount("rollback") = 1
           /\ ~db.insideTransaction
           /\ CallCount("prepare") = 0

\* An unrecognized command that an enabled plugin declined after writing to
\* the db.
C10_Witness ==
    /\ ProcessUnclaimed
    /\ CallCount("processCommand") >= 1
    /\ wrote.query


\* The severity the markers of a marked text call for: _ALERT_ before _WARN_
\* before _HMMM_, whatever the numeric prefix.
MarkerSeverity(e) ==
    IF SContains(e, StrAlertMarker) THEN "ALERT"
    ELSE IF SContains(e, StrWarnMarker) THEN "WARN"
    ELSE "HMMM"

\* The texts either catch block can be given.
CaughtTexts == ErrTexts \cup {Str501Begin, Str501Prepare, Str430}

\* C11: the markers win over the numeric prefix: a text with _ALERT_ is logged
\* as an alert, otherwise one with _WARN_ as a warning, otherwise one with
\* _HMMM_ as a notice, whatever its prefix; and the chain of peek and the chain
\* of process give every text the same severity.
SeveritiesAgree == \A e \in CaughtTexts : PeekSeverity(e) = ProcessSeverity(e)

C11_MarkersWin ==
    /\ (pc = "idle" /\ op \in {"peek", "process"} /\ err # None /\ ~Unmarked(err[1]))
          => /\ Len(ErrorLines) = 1
             /\ ErrorLines[1].level = MarkerSeverity(err[1])
    /\ SeveritiesAgree

\* Process returned after a plugin raised a text with _WARN_ and a 50x prefix.
C11_Witness == Returned("process") /\ err = Some(Err502Warn)


\* The success path was taken: peek returned after a claim, or process
\* returned, and nothing was raised.
ContentSuccess == (PeekClaimed \/ Returned("process")) /\ err = None

\* The body the response had when the success path was reached, the
\* serialization of content, and the warnings about a replaced body.
ExistingBody == BodyLeft(entry.content)
NewContent == SComposeJSONObject(cmd.jsonContent)
ReplaceWarnings == SelectSeq(log, LAMBDA l : l.site = "replace")
ContentDiffers == ~TableEmpty(cmd.jsonContent) /\ ExistingBody # NewContent

\* C12 as stated: on the success path of peek (claimed) and of process, when
\* content is non-empty and its serialization differs from the existing body, a
\* warning is logged and the body is replaced by the serialization; otherwise
\* the body is unchanged and no warning is logged.
C12_WarnOnEveryReplace ==
    ContentSuccess
        => IF ContentDiffers
           THEN cmd.response.content = NewContent /\ Len(ReplaceWarnings) = 1
           ELSE cmd.response.content = ExistingBody /\ ReplaceWarnings = <<>>

\* C12 amended: on the success path of peek (claimed) and of process, when
\* content is non-empty and its serialization differs from the existing body,
\* the body is replaced by the serialization, and a warning is logged exactly
\* when the replaced body was non-empty; otherwise the body is unchanged and no
\* warning is logged.
C12_WarnOnNonEmptyReplace ==
    ContentSuccess
        => /\ cmd.response.content = (IF ContentDiffers THEN NewContent ELSE ExistingBody)
           /\ Len(ReplaceWarnings) = (IF ContentDiffers /\ ExistingBody # <<>> THEN 1 ELSE 0)

\* Process succeeded, replaced a non-empty body a plugin had written and
\* warned about it.
C12_Witness ==
    /\ Returned("process") /\ err = None
    /\ ContentDiffers
    /\ ExistingBody = BodyRaw
    /\ cmd.response.content = NewContent
    /\ Len(ReplaceWarnings) = 1


CleanStep == pc = "idle" /\ op' = "clean" /\ db' = db

\* C14: after clean the command owns no sub-request: an owned sub-request had
\* its owner told to close the transaction exactly once, an ownerless one had
\* an error logged, and both were cleared; with no sub-request nothing happens,
\* so a second clean of the same command notifies nobody and logs nothing.
C14_CleanReleases ==
    /\ [](Returned("clean") => cmd.httpsRequest = "null")
    /\ [][CleanStep =>
            /\ cmd' = [cmd EXCEPT !.httpsRequest = "null"]
            /\ calls' = IF cmd.httpsRequest = "owned"
                        THEN <<Call("closeTransaction", 0, "void", None)>> ELSE <<>>
            /\ log' = IF cmd.httpsRequest = "ownerless"
                      THEN <<LogLine("ERROR", "noOwner", <<>>)>> ELSE <<>>
            /\ (op = "clean" => calls' = <<>> /\ log' = <<>>)]_vars

\* clean returned after telling the owner of the command's sub-request to close
\* the transaction.
C14_Witness ==
    /\ Returned("clean")
    /\ calls = <<Call("closeTransaction", 0, "void", None)>>
    /\ log = <<>>
    /\ cmd.httpsRequest = "null"


\* The alerts the destructor logged.
QueuedAlerts == SelectSeq(log, LAMBDA l : l.level = "ALERT" /\ l.site = "queued")

\* C15: at shutdown an alert listing the queued commands is logged if and only
\* if at least one command is still queued: none with an empty queue, and with
\* a non-empty one a single alert in which every queued command appears, the
\* command peek left for processing among them.
C15_AlertIffQueued ==
    /\ [](pc = "down" =>
            /\ commandList = <<>> => log = <<>>
            /\ commandList # <<>> =>
                 /\ Len(QueuedAlerts) = 1
                 /\ \A i \in DOMAIN commandList :
                      SContains(QueuedAlerts[1].text, Quoted(commandList[i])))
    /\ [][(Queued /\ pc' = "down") =>
            \E i \in DOMAIN commandList' : commandList'[i] = cmd.request.methodLine]_vars

\* The node was shut down with two commands queued and logged the alert.
C15_Witness ==
    /\ pc = "down"
    /\ Len(commandList) = 2
    /\ Len(QueuedAlerts) = 1


\* _processCommand is running or has returned, and its beginTransaction failed.
BeginFailed ==
    /\ op = "process"
    /\ calls # <<>>
    /\ calls[1] = Call("beginTransaction", 0, "false", None)

\* C16: when beginTransaction fails, no process hook and no upgrade hook is
\* invoked and prepare is never called; the failure takes the error path with
\* its rollback call, is logged once as an alert, and the status line is
\* exactly "501 Failed to begin transaction".
C16_BeginFailure ==
    BeginFailed
        => /\ \A i \in DOMAIN calls :
                calls[i].fn \notin {"processCommand", "upgradeDatabase", "prepare",
                                    "getUncommittedQuery"}
           /\ pc = "idle"
                => /\ calls = <<Call("beginTransaction", 0, "false", None),
                                Call("rollback", 0, "void", None)>>
                   /\ err = Some(Str501Begin)
                   /\ cmd.response.methodLine = Str501Begin
                   /\ ErrorLines = <<LogLine("ALERT", "error", Str501Begin)>>
                   /\ ~db.insideTransaction

\* Process returned after beginTransaction had failed for a command that an
\* enabled plugin could have been offered.
C16_Witness ==
    /\ Returned("process")
    /\ BeginFailed
    /\ \E p \in Plugins : enabled[p]
    /\ cmd.response.methodLine = Str501Begin


\* The positions inside _peekCommand.
PeekPcs == {"peekLoop", "peekAfterLoop", "peekCatch"}

UpgradeBranchTaken ==
    CallCount("upgradeDatabase") > 0 \/ \E i \in DOMAIN log : log[i].site = "upgraded"
ProcessBranchTaken ==
    CallCount("processCommand") > 0 \/ \E i \in DOMAIN log : log[i].site = "doesNotExist"
AllDeclined ==
    \A i \in DOMAIN calls : calls[i].fn = "processCommand" => calls[i].outcome = "false"

\* C18 as stated: process takes the upgrade branch exactly for the method
\* "UpgradeDatabase", compared as an exact string; a command with any other
\* method, also one that differs only in letter case, goes to the plugins'
\* process dispatch and fails as unrecognized if unclaimed.
C18_UpgradeForExactName ==
    (Returned("process") /\ BeginSucceeded)
        => IF cmd.request.methodLine = StrUpgradeDatabase
           THEN UpgradeBranchTaken /\ ~ProcessBranchTaken
           ELSE /\ ProcessBranchTaken /\ ~UpgradeBranchTaken
                /\ AllDeclined => cmd.response.methodLine = Str430

\* C18 amended: process takes the upgrade branch exactly for the methods that
\* equal "UpgradeDatabase" when letter case is ignored; a command with any
\* other method goes to the plugins' process dispatch and fails as unrecognized
\* if unclaimed.
C18_UpgradeForNameIgnoringCase ==
    (Returned("process") /\ BeginSucceeded)
        => IF SToLower(cmd.request.methodLine) = SToLower(StrUpgradeDatabase)
           THEN UpgradeBranchTaken /\ ~ProcessBranchTaken
           ELSE /\ ProcessBranchTaken /\ ~UpgradeBranchTaken
                /\ AllDeclined => cmd.response.methodLine = Str430

\* Process returned after upgrading a plugin for a command whose method is
\* "upgradedatabase".
C18_Witness ==
    /\ Returned("process")
    /\ BeginSucceeded
    /\ cmd.request.methodLine = MethodUpgradeLower
    /\ CallCount("upgradeDatabase") > 0
    /\ CallCount("processCommand") = 0


\* C19: abort sets the status line to "500 ABORTED" and changes nothing else:
\* body, content and sub-request are as before, no rollback and no prepare is
\* called, and a transaction that was open is still open.
C19_AbortOnlySetsStatus ==
    /\ [](Returned("abort") => cmd.response.methodLine = Str500Aborted)
    /\ [][(op # "abort" /\ op' = "abort") =>
            /\ cmd' = [cmd EXCEPT !.response.methodLine = Str500Aborted]
            /\ calls' = <<>>
            /\ db' = db]_vars

\* Abort returned for a processed command that has a body, content and a
\* sub-request, while the transaction it prepared is open.
C19_Witness ==
    /\ Returned("abort")
    /\ cmd.response.methodLine = Str500Aborted
    /\ cmd.response.content # <<>>
    /\ ~TableEmpty(cmd.jsonContent)
    /\ cmd.httpsRequest = "owned"
    /\ db.insideTransaction


\* C20: on every error path of peek and of process content is not serialized:
\* the body on return is the one the response had when the error was raised
\* (what a plugin wrote last, else the body on entry), no replacement is
\* warned about, and the status line is the error text.
C20_ErrorKeepsBody ==
    (pc = "idle" /\ op \in {"peek", "process"} /\ err # None)
        => /\ cmd.response.content = BodyLeft(entry.content)
           /\ cmd.response.methodLine = err[1]
           /\ ReplaceWarnings = <<>>

\* Process returned after prepare failed, with content a plugin filled and a
\* body that is not its serialization.
C20_Witness ==
    /\ Returned("process")
    /\ err = Some(Str501Prepare)
    /\ ~TableEmpty(cmd.jsonContent)
    /\ cmd.response.content # SComposeJSONObject(cmd.jsonContent)

====
